---- MODULE Spec2Model ----
(***************************************************************************)
(* Conversation session of the Genie chat client: the useChatService hook  *)
(* (messages, conversationId, loading, error), its sendMessage/clearChat   *)
(* operations, and the genieApi client functions they call.                *)
(*                                                                         *)
(* A JavaScript object is a function from its keys to values; the spread   *)
(* {...msg, k: v} is Spread.  A message id is the integer whose decimal    *)
(* string the code stores ('1' for the greeting, Date.now().toString()     *)
(* otherwise).  Every await of sendMessage is a separate step, so other    *)
(* operations interleave exactly where the code suspends.                  *)
(***************************************************************************)
EXTENDS Integers, Sequences, FiniteSets, TLC

(* ------------------------------ bounds --------------------------------- *)
\* number of sendMessage invocations one behaviour explores
MaxOps == 2
\* number of milliseconds the clock may advance
MaxTicks == 2

\* Date.now() at the start of a behaviour (any value far above the id '1')
Clock0 == 10

Ops == 1..MaxOps

\* the values Date.now() takes in one behaviour
ClockValues == Clock0..(Clock0 + MaxTicks)

(* --------------------------- JavaScript values ------------------------- *)
Undefined == [tag |-> "undefined"]
Null == [tag |-> "null"]
Str(s) == [tag |-> "string", v |-> s]
Falsy(v) == v.tag \in {"undefined", "null"}

Has(m, k) == k \in DOMAIN m

\* {...m, ...u}
Spread(m, u) ==
  [k \in DOMAIN m \cup DOMAIN u |-> IF k \in DOMAIN u THEN u[k] ELSE m[k]]

(* ------------------------------- state --------------------------------- *)
VARIABLES
  messages,        \* useState<ChatMessage[]>
  conversationId,  \* useState<string | null>; 0 is null
  loading,         \* useState(false)
  error,           \* useState<string | null>
  apiKey,          \* hook parameter; "" when not provided
  now,             \* the latest value Date.now() returned
  convCount,       \* conversations the server has started so far
  op,              \* one record per sendMessage invocation (its locals)
  call,            \* one call of a genieApi client function, step by step
  chart,           \* one input of a pure function, and what it returned
  auth             \* the stored login rate limit and the login in progress

vars == <<messages, conversationId, loading, error, apiKey, now, convCount, op,
          call, chart, auth>>

\* the synthetic greeting; "by" records which invocation appended a message
Greeting ==
  [id |-> 1,
   text |-> <<"Hello! I am Genie, your iPad chatbot assistant. Ask me a question.">>,
   sender |-> "bot",
   rawResponse |-> Null,
   by |-> 0]

IdleOp ==
  [pc |-> "idle",
   isRegeneration |-> FALSE,
   botMessageToReplace |-> 0,
   botMessageToReplaceIndex |-> 0,
   botLoadingMessageId |-> 0,
   currentConversationId |-> 0,
   pollResult |-> Null,
   sqlExecutionResult |-> Null,
   sqlChartData |-> Null,
   sqlError |-> Undefined,
   outcome |-> "none",
   attemptedSql |-> FALSE]

\* the apiKey argument of the hook: absent, or a token
ApiKeys == {"", "token"}

\* no client function is being followed call by call, no transformer input
NoCall == [pc |-> "none"]
NoChart == [pc |-> "none"]
NoAuth == [pc |-> "none"]

\* the state of the hook after its first render
Session ==
  /\ messages = <<Greeting>>
  /\ conversationId = 0
  /\ loading = FALSE
  /\ error = Null
  /\ now = Clock0
  /\ convCount = 0
  /\ op = [o \in Ops |-> IdleOp]

Init ==
  /\ Session
  /\ apiKey \in ApiKeys
  /\ call = NoCall
  /\ chart = NoChart
  /\ auth = NoAuth


(* ------------------------- remote payloads ----------------------------- *)
\* attachments[0] of a Genie message; "" is an absent (falsy) string
QueryAttachment ==
  [hasQuery |-> TRUE, description |-> "d", query |-> "SELECT 1",
   hasText |-> FALSE, content |-> "", attachment_id |-> "a1"]
QueryAttachmentNoSql ==
  [hasQuery |-> TRUE, description |-> "", query |-> "",
   hasText |-> FALSE, content |-> "", attachment_id |-> ""]
TextAttachment ==
  [hasQuery |-> FALSE, description |-> "", query |-> "",
   hasText |-> TRUE, content |-> "hi", attachment_id |-> ""]

Payload(status, atts) == [tag |-> "object", status |-> status, attachments |-> atts]
CompletedText == Payload("COMPLETED", <<TextAttachment>>)
CompletedQuery == Payload("COMPLETED", <<QueryAttachment>>)
CompletedQueryNoSql == Payload("COMPLETED", <<QueryAttachmentNoSql>>)
RunningEmpty == Payload("RUNNING", <<>>)

\* an HTTP response: status code and, for a 200, the JSON body
Http(status, data) == [status |-> status, data |-> data]
Ok(resp) == resp.status >= 200 /\ resp.status <= 299

\* a thrown Error and a returned value
Threw(message) == [threw |-> TRUE, message |-> message, data |-> Null]
Returned(data) == [threw |-> FALSE, message |-> <<>>, data |-> data]

\* `API error ${response.status}`
StatusText(n) ==
  CASE n = 409 -> "409" [] n = 500 -> "500" [] n = 200 -> "200" [] OTHER -> "?"
ApiError(status) == <<"API error ", StatusText(status)>>
TokenError == <<"API token is required but was not provided">>

\* a variant that falls back to a default token
TokenDefaulted(token) == FALSE

\* getApiToken: throws unless a token was provided
TokenMissing(token) == token = ""

(* --------------------------- pollForResponse --------------------------- *)
\* what the server answers to the successive poll calls: n409 conflicts,
\* then nRunning in-progress bodies, then `final` for every later call
Script(n409, nRunning, final) ==
  [n409 |-> n409, nRunning |-> nRunning, final |-> final]
RespAt(script, k) ==
  IF k < script.n409 THEN Http(409, Null)
  ELSE IF k < script.n409 + script.nRunning THEN Http(200, RunningEmpty)
  ELSE script.final

ConflictRetries == 15
PollAttempts == 20

RECURSIVE pollForResponse(_, _, _)
pollForResponse(script, token, attempts) ==
  IF TokenMissing(token) THEN Threw(TokenError)
  ELSE
    LET response == RespAt(script, attempts) IN
    IF response.status = 409 /\ attempts < ConflictRetries
      THEN pollForResponse(script, token, attempts + 1)
    ELSE IF ~Ok(response) THEN Threw(ApiError(response.status))
    ELSE IF response.data.status # "COMPLETED" /\ response.data.status # "FAILED"
            /\ attempts < PollAttempts
      THEN pollForResponse(script, token, attempts + 1)
    ELSE Returned(response.data)

\* the server behaviours the session is explored under
PollScripts ==
  { Script(0, 0, Http(200, CompletedText)),
    Script(2, 1, Http(200, CompletedText)),
    Script(0, 0, Http(200, CompletedQuery)),
    Script(0, 0, Http(200, CompletedQueryNoSql)),
    Script(0, PollAttempts + 1, Http(200, RunningEmpty)),
    Script(0, 0, Http(500, Null)) }

\* what pollForResponse(conversationId, messageId, token) settles with, for
\* each token and over the server behaviours above
PollOutcomes ==
  [token \in ApiKeys |->
     {pollForResponse(script, token, 0) : script \in PollScripts}]

(* ------------------------- executeSQLQuery ----------------------------- *)
\* JavaScript arrays and numbers where a value may also be undefined
Arr(s) == [tag |-> "array", v |-> s]
Num(n) == [tag |-> "number", v |-> n]

\* !v for a value that is undefined, null, a number or an object
Not(v) == Falsy(v) \/ (v.tag = "number" /\ v.v = 0)

\* the result section and the manifest section of a statement response
ResultSection(data_array, total_row_count) ==
  [tag |-> "object", data_array |-> data_array, total_row_count |-> total_row_count]
Column(name) == [tag |-> "object", name |-> Str(name)]
Schema(columns) == [tag |-> "object", columns |-> columns]
Manifest(schema) == [tag |-> "object", schema |-> schema]

\* a statement-execution response body
Statement(state, message, result, manifest) ==
  [tag |-> "object", state |-> state, message |-> message,
   result |-> result, manifest |-> manifest]

OneRow == ResultSection(Arr(<< <<"x", 1>> >>), Num(1))
TwoColumns == Manifest(Schema(Arr(<<Column("a"), Column("b")>>)))

SqlResponses ==
  { Http(200, Statement("SUCCEEDED", "", OneRow, TwoColumns)),
    Http(200, Statement("SUCCEEDED", "", Undefined, TwoColumns)),
    Http(200, Statement("FAILED", "syntax error", Undefined, Undefined)) }

\* a variant that does not look at the statement state
executeSQLQueryAnyState(response, token) ==
  IF token = "" THEN Threw(TokenError)
  ELSE IF ~Ok(response)
    THEN Threw(<<"Databricks SQL API error ", StatusText(response.status)>>)
  ELSE Returned(response.data)

executeSQLQuery(response, token) ==
  IF TokenMissing(token) THEN Threw(TokenError)
  ELSE IF ~Ok(response)
    THEN Threw(<<"Databricks SQL API error ", StatusText(response.status)>>)
  ELSE IF response.data.state = "FAILED"
    THEN Threw(<<"SQL execution failed: ",
                 IF response.data.message # "" THEN response.data.message
                 ELSE "Unknown error">>)
  ELSE Returned(response.data)

\* the statements of the try block throw a TypeError: schema or columns is
\* undefined, or a column is null
TransformThrows(result) ==
  LET schema == result.manifest.schema IN
  \/ Falsy(schema)
  \/ Falsy(schema.columns)
  \/ \E i \in 1..Len(schema.columns.v) : Falsy(schema.columns.v[i])

\* what a caller sees of an exception that leaves a function
Raised == [tag |-> "exception"]

\* a variant without the try/catch
transformWithoutCatch(result) ==
  IF Falsy(result) \/ Falsy(result.result) \/ Falsy(result.manifest) THEN Null
  ELSE IF TransformThrows(result) THEN Raised
  ELSE [tag |-> "object",
        columnNames |-> [i \in 1..Len(result.manifest.schema.columns.v) |->
                           result.manifest.schema.columns.v[i].name],
        rows |-> IF Falsy(result.result.data_array) THEN <<>>
                 ELSE result.result.data_array.v,
        rowCount |-> IF Falsy(result.result.data_array) THEN 0
                     ELSE Len(result.result.data_array.v),
        totalRowCount |-> IF Not(result.result.total_row_count)
                            THEN IF Falsy(result.result.data_array) THEN 0
                                 ELSE Len(result.result.data_array.v)
                          ELSE result.result.total_row_count.v]

\* null when the result or the manifest section is missing or the try block
\* throws, else the table
transformDatabricksResultToChartData(result) ==
  IF Falsy(result) \/ Falsy(result.result) \/ Falsy(result.manifest) THEN Null
  ELSE IF TransformThrows(result) THEN Null
  ELSE
    LET columns == result.manifest.schema.columns.v
        data == IF Falsy(result.result.data_array) THEN <<>>
                ELSE result.result.data_array.v
        total == result.result.total_row_count
    IN
    [tag |-> "object",
     columnNames |-> [i \in 1..Len(columns) |-> columns[i].name],
     rows |-> data,
     rowCount |-> Len(data),
     totalRowCount |-> IF Not(total) THEN Len(data) ELSE total.v]

(* ----------------------------- classification -------------------------- *)
FirstAttachment(response) ==
  IF Falsy(response) \/ Len(response.attachments) = 0 THEN Null
  ELSE Spread(response.attachments[1], [tag |-> "object"])

\* a variant that tests the text shape before the query shape
extractContentTextFirst(response) ==
  LET a == FirstAttachment(response) IN
  IF ~Falsy(a) /\ a.hasText /\ a.content # ""
    THEN [content |-> a.content, isQueryResponse |-> FALSE]
  ELSE IF ~Falsy(a) /\ a.hasQuery
    THEN [content |-> IF a.description # "" THEN a.description
                      ELSE "No query description available",
          isQueryResponse |-> TRUE]
  ELSE [content |-> "Could not extract content from response",
        isQueryResponse |-> FALSE]

extractContent(response) ==
  LET a == FirstAttachment(response) IN
  IF ~Falsy(a) /\ a.hasQuery
    THEN [content |-> IF a.description # "" THEN a.description
                      ELSE "No query description available",
          isQueryResponse |-> TRUE]
  ELSE IF ~Falsy(a) /\ a.hasText /\ a.content # ""
    THEN [content |-> a.content, isQueryResponse |-> FALSE]
  ELSE [content |-> "Could not extract content from response",
        isQueryResponse |-> FALSE]

hasSQLQuery(response) ==
  LET a == FirstAttachment(response) IN ~Falsy(a) /\ a.hasQuery

\* pollResult?.attachments?.[0]?.query?.query
SqlText(response) ==
  LET a == FirstAttachment(response) IN
  IF ~Falsy(a) /\ a.hasQuery THEN a.query ELSE ""

(* ------------------------------ sendMessage ---------------------------- *)
\* text.trim()
Trim(text) == IF text = " " THEN "" ELSE text
Texts == {"", " ", "q"}

Loading(m) == Has(m, "loading") /\ m.loading

\* index of the last non-loading bot message other than the greeting (0: none)
Eligible(msgs) ==
  {i \in 1..Len(msgs) : msgs[i].sender = "bot" /\ ~Loading(msgs[i]) /\ msgs[i].id # 1}
LastBotMessageIndex(msgs) ==
  IF Eligible(msgs) = {} THEN 0
  ELSE CHOOSE i \in Eligible(msgs) : \A j \in Eligible(msgs) : j <= i

UserMessage(o, id, text) ==
  [id |-> id, text |-> <<text>>, sender |-> "user", rawResponse |-> Null, by |-> o]

LoadingMessage(o, id) ==
  [id |-> id, text |-> <<"Loading...">>, sender |-> "bot", loading |-> TRUE,
   rawResponse |-> Null, by |-> o]

\* the fields the regeneration branch overwrites on its target
RegenerationMark ==
  [loading |-> TRUE,
   text |-> <<"Regenerating response...">>,
   extractedContent |-> Undefined,
   sqlChartData |-> Undefined,
   sqlError |-> Undefined]

\* a variant that locates the message by scanning for the last loading flag
UpdateLastLoading(msgs, id, upd) ==
  LET L == {i \in 1..Len(msgs) : Has(msgs[i], "loading") /\ msgs[i].loading} IN
  [i \in 1..Len(msgs) |->
     IF i \in L /\ (\A j \in L : j <= i) THEN Spread(msgs[i], upd) ELSE msgs[i]]

\* prev.map(msg => msg.id === id ? {...msg, ...upd} : msg)
UpdateById(msgs, id, upd) ==
  [i \in 1..Len(msgs) |-> IF msgs[i].id = id THEN Spread(msgs[i], upd) ELSE msgs[i]]

\* prev.map((msg, index) => index === idx ? {...msg, ...upd} : msg)
UpdateByIndex(msgs, idx, upd) ==
  [i \in 1..Len(msgs) |-> IF i = idx THEN Spread(msgs[i], upd) ELSE msgs[i]]

\* JSON.stringify({apiResponse, sqlResult}, null, 2)
Stringify(pollResult, sqlResult) ==
  <<"{apiResponse:", pollResult.status,
    IF Len(pollResult.attachments) = 0 THEN "[]"
    ELSE IF pollResult.attachments[1].hasQuery THEN "[query]" ELSE "[text]",
    "sqlResult:", sqlResult.tag, "}">>

\* a variant that leaves isQueryResponse off the settled message
SuccessUpdateWithoutFlag(r, sqlResult) ==
  [text |-> Stringify(r.pollResult, sqlResult),
   loading |-> FALSE,
   rawResponse |-> [tag |-> "object", apiResponse |-> r.pollResult, sqlResult |-> sqlResult],
   extractedContent |-> Str(extractContent(r.pollResult).content),
   sqlExecutionResult |-> r.sqlExecutionResult,
   sqlChartData |-> r.sqlChartData,
   sqlError |-> r.sqlError]

\* the object the try block writes onto the target message (lines 229-243)
SuccessUpdate(r, sqlResult) ==
  LET c == extractContent(r.pollResult) IN
  [text |-> Stringify(r.pollResult, sqlResult),
   loading |-> FALSE,
   rawResponse |-> [tag |-> "object", apiResponse |-> r.pollResult, sqlResult |-> sqlResult],
   extractedContent |-> Str(c.content),
   isQueryResponse |-> c.isQueryResponse,
   sqlExecutionResult |-> r.sqlExecutionResult,
   sqlChartData |-> r.sqlChartData,
   sqlError |-> r.sqlError]

\* a variant with the prefix in another case
ErrorTextMixedCase(errorMessage) == <<"Error: ">> \o errorMessage

\* `ERROR: ${errorMessage}`
ErrorText(errorMessage) == <<"ERROR: ">> \o errorMessage

\* a variant that forgets to end the loading state
ErrorUpdateKeepsLoading(errorMessage) ==
  [text |-> <<"ERROR: ">> \o errorMessage,
   rawResponse |-> [tag |-> "error", error |-> errorMessage]]

\* the object the catch block writes onto the target message (lines 255-264)
ErrorUpdate(errorMessage) ==
  [text |-> ErrorText(errorMessage),
   loading |-> FALSE,
   rawResponse |-> [tag |-> "error", error |-> errorMessage]]

\* targetMessageId of both the try and the catch block
TargetMessageId(r) ==
  IF r.isRegeneration /\ r.botMessageToReplace # 0
    THEN r.botMessageToReplace ELSE r.botLoadingMessageId

\* Without a token the client throws before it makes a request, so the
\* rejection is handled in the task that issued the call: no other handler
\* runs between that call and its catch block.
RejectionPending ==
  TokenMissing(apiKey) /\ \E o \in Ops : op[o].pc \notin {"idle", "done"}

\* the synchronous prefix of sendMessage, up to the first await
SendMessage(o, text, isRegeneration) ==
  /\ ~RejectionPending
  /\ op[o].pc = "idle"
  /\ \A p \in Ops : p < o => op[p].pc # "idle"
  /\ Trim(text) # ""
  /\ error' = Null
  /\ LET idx == IF isRegeneration THEN LastBotMessageIndex(messages) ELSE 0
         target == IF idx > 0 THEN messages[idx].id ELSE 0
     IN
     \E t1 \in ClockValues, t2 \in ClockValues :
       /\ now <= t1 /\ t1 <= t2 /\ t2 <= t1 + 1
       /\ isRegeneration => t2 = t1
       /\ now' = t2
       /\ LET withUser == IF isRegeneration THEN messages
                          ELSE Append(messages, UserMessage(o, t1, text))
              botLoadingMessageId == IF isRegeneration /\ target # 0 THEN target
                                     ELSE t2 + 1
          IN
          /\ messages' =
               IF isRegeneration /\ target # 0
                 THEN UpdateByIndex(withUser, idx, RegenerationMark)
               ELSE IF ~isRegeneration
                 THEN Append(withUser, LoadingMessage(o, botLoadingMessageId))
               ELSE withUser
          /\ op' = [op EXCEPT ![o] =
                      [@ EXCEPT !.pc = IF conversationId = 0 THEN "start" ELSE "post",
                                !.isRegeneration = isRegeneration,
                                !.botMessageToReplace = target,
                                !.botMessageToReplaceIndex = idx,
                                !.botLoadingMessageId = botLoadingMessageId,
                                !.currentConversationId = conversationId]]
  /\ loading' = TRUE
  /\ UNCHANGED <<conversationId, apiKey, call, chart, auth, convCount>>

\* the catch and finally blocks
Catch(o, r, errorMessage) ==
  /\ messages' = UpdateById(messages, TargetMessageId(r), ErrorUpdate(errorMessage))
  /\ error' = Str(errorMessage)
  /\ loading' = FALSE
  /\ op' = [op EXCEPT ![o] = [r EXCEPT !.pc = "done", !.outcome = "error",
                                 !.currentConversationId = 0,
                                 !.pollResult = Null,
                                 !.sqlExecutionResult = Null,
                                 !.sqlChartData = Null,
                                 !.sqlError = Undefined]]

\* the final setMessages of the try block and the finally block
Settle(o, r, sqlResult) ==
  /\ messages' = UpdateById(messages, TargetMessageId(r), SuccessUpdate(r, sqlResult))
  /\ loading' = FALSE
  /\ op' = [op EXCEPT ![o] = [r EXCEPT !.pc = "done", !.outcome = "success",
                                 !.currentConversationId = 0,
                                 !.pollResult = Null,
                                 !.sqlExecutionResult = Null,
                                 !.sqlChartData = Null,
                                 !.sqlError = Undefined]]
  /\ UNCHANGED error

\* the await of pollForResponse is reached with both ids present
AwaitPoll(o, r) ==
  /\ op' = [op EXCEPT ![o] = [r EXCEPT !.pc = "poll"]]
  /\ UNCHANGED <<messages, loading, error>>

\* responses to start-conversation and to create-message; both carry the ids
StartResponses == { [status |-> 200], [status |-> 500] }

\* startConversation settles: lines 150-153, and 161-166 up to the next await
StartConversationReturns(o) ==
  /\ op[o].pc = "start"
  /\ IF TokenMissing(apiKey)
       THEN /\ Catch(o, op[o], TokenError)
            /\ UNCHANGED <<conversationId, convCount>>
     ELSE \E resp \in StartResponses :
       IF ~Ok(resp)
         THEN /\ Catch(o, op[o], ApiError(resp.status))
              /\ UNCHANGED <<conversationId, convCount>>
       ELSE
         /\ convCount' = convCount + 1
         /\ conversationId' = convCount + 1
         /\ AwaitPoll(o, [op[o] EXCEPT !.currentConversationId = convCount + 1])
  /\ UNCHANGED <<apiKey, call, chart, auth, now>>

\* createMessage settles: lines 156-157, and 161-166 up to the next await
CreateMessageReturns(o) ==
  /\ op[o].pc = "post"
  /\ IF TokenMissing(apiKey) THEN Catch(o, op[o], TokenError)
     ELSE \E resp \in StartResponses :
       IF ~Ok(resp) THEN Catch(o, op[o], ApiError(resp.status))
       ELSE AwaitPoll(o, op[o])
  /\ UNCHANGED <<conversationId, apiKey, call, chart, auth, now, convCount>>

\* pollForResponse settles: lines 166-177, up to the next await or the end
PollReturns(o) ==
  /\ op[o].pc = "poll"
  /\ \E res \in PollOutcomes[apiKey] :
       IF res.threw THEN Catch(o, op[o], res.message)
       ELSE
         LET r == [op[o] EXCEPT !.pollResult = res.data]
             c == extractContent(res.data)
         IN
         IF c.isQueryResponse /\ SqlText(res.data) # ""
           THEN /\ op' = [op EXCEPT ![o] = [r EXCEPT !.pc = "sql", !.attemptedSql = TRUE]]
                /\ UNCHANGED <<messages, loading, error>>
         ELSE IF hasSQLQuery(res.data) /\ r.currentConversationId # 0
           THEN /\ op' = [op EXCEPT ![o] = [r EXCEPT !.pc = "fetch"]]
                /\ UNCHANGED <<messages, loading, error>>
         ELSE Settle(o, r, Null)
  /\ UNCHANGED <<conversationId, apiKey, call, chart, auth, now, convCount>>

\* a variant without the inner try/catch: a failed execution fails the send
ExecuteSqlReturnsUncaught(o) ==
  /\ op[o].pc = "sql"
  /\ \E resp \in SqlResponses :
       LET res == executeSQLQuery(resp, apiKey) IN
       IF res.threw THEN Catch(o, op[o], res.message)
       ELSE /\ op' = [op EXCEPT ![o] =
                        [@ EXCEPT !.pc = "fetch",
                                  !.sqlExecutionResult = res.data,
                                  !.sqlChartData =
                                     transformDatabricksResultToChartData(res.data)]]
            /\ UNCHANGED <<messages, loading, error>>
  /\ UNCHANGED <<conversationId, apiKey, call, chart, auth, now, convCount>>

\* executeSQLQuery settles: lines 178-194, up to the await of the result fetch
\* (a query attachment is present here, so hasSQLQuery holds)
ExecuteSqlReturns(o) ==
  /\ op[o].pc = "sql"
  /\ \E resp \in SqlResponses :
       LET res == executeSQLQuery(resp, apiKey)
           r == IF res.threw
                  THEN [op[o] EXCEPT !.sqlError = Str(res.message)]
                ELSE [op[o] EXCEPT !.sqlExecutionResult = res.data,
                                   !.sqlChartData =
                                      transformDatabricksResultToChartData(res.data)]
       IN
       op' = [op EXCEPT ![o] = [r EXCEPT !.pc = "fetch"]]
  /\ UNCHANGED <<messages, conversationId, loading, error, apiKey, call, chart, auth, now, convCount>>

\* getAttachmentQueryResult or getSQLQueryResult settles, by returning a
\* payload or by throwing (caught and logged): lines 195-243 and 267-269
FetchSqlResultReturns(o) ==
  /\ op[o].pc = "fetch"
  /\ \E fetched \in BOOLEAN :
       Settle(o, op[o],
              IF fetched /\ ~TokenMissing(apiKey) THEN [tag |-> "object"] ELSE Null)
  /\ UNCHANGED <<conversationId, apiKey, call, chart, auth, now, convCount>>

\* a variant that keeps the conversation
ClearChatKeepsConversation ==
  /\ ~RejectionPending
  /\ messages' = <<Greeting>>
  /\ error' = Null
  /\ loading' = FALSE
  /\ UNCHANGED <<conversationId, apiKey, call, chart, auth, now, convCount, op>>

\* clearChat: lines 273-283
ClearChat ==
  /\ ~RejectionPending
  /\ messages' = <<Greeting>>
  /\ conversationId' = 0
  /\ error' = Null
  /\ loading' = FALSE
  /\ UNCHANGED <<apiKey, call, chart, auth, now, convCount, op>>

Next ==
  \/ \E o \in Ops, text \in Texts, isRegeneration \in BOOLEAN :
       SendMessage(o, text, isRegeneration)
  \/ \E o \in Ops : StartConversationReturns(o)
  \/ \E o \in Ops : CreateMessageReturns(o)
  \/ \E o \in Ops : PollReturns(o)
  \/ \E o \in Ops : ExecuteSqlReturns(o)
  \/ \E o \in Ops : FetchSqlResultReturns(o)
  \/ ClearChat

Spec == Init /\ [][Next]_vars

\* a network call that was issued returns or fails
Returns ==
  \E o \in Ops :
    \/ StartConversationReturns(o)
    \/ CreateMessageReturns(o)
    \/ PollReturns(o)
    \/ ExecuteSqlReturns(o)
    \/ FetchSqlResultReturns(o)

\* Every call that is outstanding eventually returns or fails.  An invocation
\* has one call outstanding at a time and makes finitely many, so this needs
\* no more than: while some call is outstanding, some call returns.
Fairness == WF_vars(Returns)

LiveSpec == Init /\ [][Next]_vars /\ Fairness

(* ------------------- genieApi functions, call by call ------------------ *)
ClientFunctions ==
  {"startConversation", "createMessage", "pollForResponse",
   "getSQLQueryResult", "getAttachmentQueryResult", "executeSQLQuery"}

\* a delay in milliseconds, as a fraction <<numerator, denominator>>
Ms(n) == <<n, 1>>
RatLe(a, b) == a[1] * b[2] <= b[1] * a[2]
RatEq(a, b) == a[1] * b[2] = b[1] * a[2]

BaseDelay == 1000
MaxDelay == 10000
GrowthNum == 3
GrowthDen == 2

\* 1000 * Math.pow(1.5, attempts), exact up to the first value above the cap;
\* the power grows with attempts, so from there on the minimum below is the
\* cap whatever the exact value
RECURSIVE Grown(_)
Grown(attempts) ==
  IF attempts = 0 THEN Ms(BaseDelay)
  ELSE LET p == Grown(attempts - 1) IN
       IF RatLe(Ms(MaxDelay), p) THEN p
       ELSE <<p[1] * GrowthNum, p[2] * GrowthDen>>

\* Math.min(1000 * Math.pow(1.5, attempts), 10000)
Delay(attempts) ==
  IF RatLe(Grown(attempts), Ms(MaxDelay)) THEN Grown(attempts) ELSE Ms(MaxDelay)

\* a call of fn with this token, before its first statement
NewCall(fn, token) ==
  [pc |-> "fetch", fn |-> fn, token |-> token,
   attempts |-> 0,          \* the attempts parameter of the current invocation
   calls |-> 0,             \* fetches made so far
   waited |-> Ms(0),        \* the delay that elapsed since the last fetch
   last |-> "none",         \* what the last fetch answered
   body |-> Null,           \* the JSON body of the last fetch (null: none)
   conflicts |-> 0,         \* 409 answers so far
   pending |-> 0,           \* 200 answers so far that were not final
   ordered |-> TRUE,        \* no 409 came after a 200
   outcome |-> Null]

\* what a response is, for the record
Kind(response) ==
  IF ~Ok(response) THEN StatusText(response.status)
  ELSE IF Has(response.data, "status") THEN response.data.status
  ELSE IF ~Has(response.data, "statement_response") THEN "ok"
  ELSE IF Falsy(response.data.statement_response) THEN "absent"
  ELSE response.data.statement_response.state

\* fetch has returned response
Received(c, response, final) ==
  [c EXCEPT !.calls = @ + 1,
            !.last = Kind(response),
            !.body = response.data,
            !.conflicts = IF response.status = 409 THEN @ + 1 ELSE @,
            !.pending = IF Ok(response) /\ ~final THEN @ + 1 ELSE @,
            !.ordered = @ /\ ~(response.status = 409 /\ c.pending > 0),
            !.waited = Ms(0)]

\* return await fn(..., attempts + 1): the next invocation starts with its delay
Retry(c) == [c EXCEPT !.attempts = @ + 1, !.pc = "delay"]

\* the call returns or throws
Finish(c, outcome) == [c EXCEPT !.pc = "done", !.outcome = outcome]

\* nothing of the hook moves while a client function is followed
SessionUnchanged ==
  UNCHANGED <<messages, conversationId, loading, error, apiKey, now, convCount, op>>

\* a variant that does not wait
ClientNoWait ==
  /\ call.pc = "delay"
  /\ call' = [call EXCEPT !.pc = "fetch"]
  /\ SessionUnchanged /\ UNCHANGED <<chart, auth>>

\* if (attempts > 0) await new Promise(resolve => setTimeout(resolve, delay))
ClientWait ==
  /\ call.pc = "delay"
  /\ call' = [call EXCEPT !.pc = "fetch", !.waited = Delay(call.attempts)]
  /\ SessionUnchanged /\ UNCHANGED <<chart, auth>>

\* the responses of the Genie message endpoint
PollResponses ==
  { Http(409, Null), Http(500, Null), Http(200, RunningEmpty),
    Http(200, CompletedText), Http(200, Payload("FAILED", <<>>)) }

Terminal(data) == data.status = "COMPLETED" \/ data.status = "FAILED"

\* a variant that retries a 409 once more
PollFetchOneMoreRetry ==
  /\ call.pc = "fetch" /\ call.fn = "pollForResponse"
  /\ IF TokenMissing(call.token) THEN call' = Finish(call, Threw(TokenError))
     ELSE \E response \in PollResponses :
       LET c == Received(call, response, Ok(response) /\ Terminal(response.data)) IN
       call' =
         IF response.status = 409 /\ call.attempts <= ConflictRetries THEN Retry(c)
         ELSE IF ~Ok(response) THEN Finish(c, Threw(ApiError(response.status)))
         ELSE IF ~Terminal(response.data) /\ call.attempts < PollAttempts THEN Retry(c)
         ELSE Finish(c, Returned(response.data))
  /\ SessionUnchanged /\ UNCHANGED <<chart, auth>>

\* a variant that counts the 409 answers apart from the attempts
PollFetchSeparateCounters ==
  /\ call.pc = "fetch" /\ call.fn = "pollForResponse"
  /\ IF TokenMissing(call.token) THEN call' = Finish(call, Threw(TokenError))
     ELSE \E response \in PollResponses :
       LET c == Received(call, response, Ok(response) /\ Terminal(response.data)) IN
       call' =
         IF response.status = 409 /\ call.conflicts < ConflictRetries THEN Retry(c)
         ELSE IF ~Ok(response) THEN Finish(c, Threw(ApiError(response.status)))
         ELSE IF ~Terminal(response.data) /\ call.attempts < PollAttempts THEN Retry(c)
         ELSE Finish(c, Returned(response.data))
  /\ SessionUnchanged /\ UNCHANGED <<chart, auth>>

\* pollForResponse from its fetch on: lines 397-422
PollFetch ==
  /\ call.pc = "fetch" /\ call.fn = "pollForResponse"
  /\ IF TokenMissing(call.token) THEN call' = Finish(call, Threw(TokenError))
     ELSE \E response \in PollResponses :
       LET c == Received(call, response, Ok(response) /\ Terminal(response.data)) IN
       call' =
         IF response.status = 409 /\ call.attempts < ConflictRetries THEN Retry(c)
         ELSE IF ~Ok(response) THEN Finish(c, Threw(ApiError(response.status)))
         ELSE IF ~Terminal(response.data) /\ call.attempts < PollAttempts THEN Retry(c)
         ELSE Finish(c, Returned(response.data))
  /\ SessionUnchanged /\ UNCHANGED <<chart, auth>>

\* a body of the SQL-result endpoints; "" is a response without statement_response
SqlResultBody(state) ==
  [tag |-> "object",
   statement_response |-> IF state = "" THEN Undefined
                          ELSE [tag |-> "object", state |-> state]]

SqlResultResponses ==
  { Http(500, Null), Http(200, SqlResultBody("RUNNING")),
    Http(200, SqlResultBody("PENDING")), Http(200, SqlResultBody("SUCCEEDED")),
    Http(200, SqlResultBody("")) }

SqlResultAttempts == 15

\* data.statement_response?.status?.state
StateOf(data) ==
  IF Falsy(data.statement_response) THEN "" ELSE data.statement_response.state

\* getSQLQueryResult from its fetch on: lines 439-462
SqlResultFetch ==
  /\ call.pc = "fetch" /\ call.fn = "getSQLQueryResult"
  /\ IF TokenMissing(call.token) THEN call' = Finish(call, Threw(TokenError))
     ELSE \E response \in SqlResultResponses :
       LET again == Ok(response) /\ StateOf(response.data) \in {"RUNNING", "PENDING"}
                    /\ call.attempts < SqlResultAttempts
           c == Received(call, response, ~again)
       IN
       call' =
         IF ~Ok(response) THEN Finish(c, Threw(ApiError(response.status)))
         ELSE IF again THEN Retry(c)
         ELSE Finish(c, Returned(response.data))
  /\ SessionUnchanged /\ UNCHANGED <<chart, auth>>

\* getAttachmentQueryResult from its fetch on: lines 480-500
AttachmentResultFetch ==
  /\ call.pc = "fetch" /\ call.fn = "getAttachmentQueryResult"
  /\ IF TokenMissing(call.token) THEN call' = Finish(call, Threw(TokenError))
     ELSE \E response \in SqlResultResponses :
       LET again == Ok(response) /\ StateOf(response.data) = "RUNNING"
                    /\ call.attempts < SqlResultAttempts
           c == Received(call, response, ~again)
       IN
       call' =
         IF ~Ok(response) THEN Finish(c, Threw(ApiError(response.status)))
         ELSE IF again THEN Retry(c)
         ELSE Finish(c, Returned(response.data))
  /\ SessionUnchanged /\ UNCHANGED <<chart, auth>>

\* startConversation and createMessage: lines 332-355 and 358-381
StartResponseBody == [tag |-> "object", conversation_id |-> 1, message_id |-> 1]

StartOrCreateFetch ==
  /\ call.pc = "fetch" /\ call.fn \in {"startConversation", "createMessage"}
  /\ IF TokenMissing(call.token) THEN call' = Finish(call, Threw(TokenError))
     ELSE \E response \in {Http(200, StartResponseBody), Http(500, Null)} :
       LET c == Received(call, response, TRUE) IN
       call' =
         IF ~Ok(response) THEN Finish(c, Threw(ApiError(response.status)))
         ELSE Finish(c, Returned(response.data))
  /\ SessionUnchanged /\ UNCHANGED <<chart, auth>>

\* the responses of the statement endpoint
StatementResponses ==
  SqlResponses \cup
  { Http(500, Null), Http(409, Null),
    Http(200, Statement("FAILED", "", Undefined, Undefined)),
    Http(200, Statement("PENDING", "", Undefined, Undefined)) }

\* executeSQLQuery: lines 510-546
ExecuteSqlFetch ==
  /\ call.pc = "fetch" /\ call.fn = "executeSQLQuery"
  /\ IF TokenMissing(call.token)
       THEN call' = Finish(call, executeSQLQuery(Http(200, Null), call.token))
     ELSE \E response \in StatementResponses :
       call' = Finish([call EXCEPT !.calls = @ + 1,
                                   !.last = IF Ok(response) THEN response.data.state
                                            ELSE StatusText(response.status),
                                   !.body = response.data],
                      executeSQLQuery(response, call.token))
  /\ SessionUnchanged /\ UNCHANGED <<chart, auth>>

ClientInit ==
  /\ Session
  /\ apiKey \in ApiKeys
  /\ call \in {NewCall(fn, apiKey) : fn \in ClientFunctions}
  /\ chart = NoChart
  /\ auth = NoAuth

ClientNext ==
  \/ ClientWait
  \/ PollFetch
  \/ SqlResultFetch
  \/ AttachmentResultFetch
  \/ StartOrCreateFetch
  \/ ExecuteSqlFetch

ClientSpec == ClientInit /\ [][ClientNext]_vars

(* ------------- transformDatabricksResultToChartData, applied ----------- *)
DataArrays ==
  { Undefined, Arr(<<>>), Arr(<< <<"x", 1>> >>), Arr(<< <<"x", 1>>, <<"y", 2>> >>) }
Totals == { Undefined, Num(0), Num(1), Num(5) }
ResultSections ==
  {Undefined} \cup {ResultSection(d, t) : d \in DataArrays, t \in Totals}

ColumnLists ==
  { Undefined, Arr(<<>>), Arr(<<Column("a")>>), Arr(<<Column("a"), Column("b")>>),
    Arr(<<Column("b"), Column("a")>>), Arr(<<Column("a"), Null>>) }
Manifests ==
  {Undefined, Manifest(Undefined)} \cup {Manifest(Schema(c)) : c \in ColumnLists}

\* the values the transformer is applied to
RawResults ==
  {Null} \cup {Statement("SUCCEEDED", "", r, m) : r \in ResultSections, m \in Manifests}

\* the transformer is applied to chart.input, and then once more
ApplyTransform ==
  /\ chart.pc \in {"input", "once"}
  /\ chart' =
       IF chart.pc = "input"
         THEN [chart EXCEPT !.pc = "once",
                            !.first = transformDatabricksResultToChartData(chart.input)]
       ELSE [chart EXCEPT !.pc = "twice",
                          !.second = transformDatabricksResultToChartData(chart.input)]
  /\ SessionUnchanged /\ UNCHANGED <<call, auth>>

TransformInit ==
  /\ Session
  /\ apiKey = "token"
  /\ call = NoCall
  /\ auth = NoAuth
  /\ chart \in {[pc |-> "input", input |-> r, first |-> Undefined, second |-> Undefined] :
                  r \in RawResults}

TransformNext == ApplyTransform

TransformSpec == TransformInit /\ [][TransformNext]_vars

(* ---------------------- extractContent, applied ------------------------ *)
\* attachments: a query shape (absent, or with description "" or "d"), a text
\* shape (absent, or with content "" or "hi"), or both
Shape(q, d, t, c) ==
  [hasQuery |-> q, description |-> d, query |-> IF q THEN "SELECT 1" ELSE "",
   hasText |-> t, content |-> c, attachment_id |-> ""]
Attachments ==
  {Shape(q, d, t, c) : q \in {TRUE}, d \in {"", "d"}, t \in {TRUE}, c \in {"", "hi"}}
    \cup {Shape(TRUE, d, FALSE, "") : d \in {"", "d"}}
    \cup {Shape(FALSE, "", TRUE, c) : c \in {"", "hi"}}
    \cup {Shape(FALSE, "", FALSE, "")}

\* the polled messages extractContent is applied to: none, one or two
\* attachments; and a missing response
PolledMessages ==
  {Null, Payload("COMPLETED", <<>>)}
    \cup {Payload("COMPLETED", <<a>>) : a \in Attachments}
    \cup {Payload("COMPLETED", <<a, b>>) : a \in Attachments, b \in Attachments}

Classify ==
  /\ chart.pc = "polled"
  /\ chart' = [chart EXCEPT !.pc = "classified",
                            !.first = extractContent(chart.input)]
  /\ SessionUnchanged /\ UNCHANGED <<call, auth>>

ClassifyInit ==
  /\ Session
  /\ apiKey = "token"
  /\ call = NoCall
  /\ auth = NoAuth
  /\ chart \in {[pc |-> "polled", input |-> r, first |-> Undefined, second |-> Undefined] :
                  r \in PolledMessages}

ClassifyNext == Classify

ClassifySpec == ClassifyInit /\ [][ClassifyNext]_vars

(* --------------- SQLResultChart: the columns of the chart -------------- *)
\* the longest first row explored
MaxRowLen == 3

\* string cells, with what parseFloat and Number make of each: "7" is 7 for
\* both; "12abc" is 12 for parseFloat and NaN for Number; "" is NaN for
\* parseFloat and 0 for Number; "abc" is NaN for both
CellStrings == {"7", "abc", "12abc", ""}
ParseFloatIsNaN(s) == s \in {"abc", ""}
NumberIsFinite(s) == s \in {"7", ""}

isNumericString(value) ==
  IF value.tag = "number" THEN TRUE
  ELSE IF value.tag # "string" THEN FALSE
  ELSE ~ParseFloatIsNaN(value.v) /\ NumberIsFinite(value.v)

\* the cells of a row: a number, null, or a string
Cells == {Num(3), Null} \cup {Str(s) : s \in CellStrings}
FirstRows == UNION {[1..n -> Cells] : n \in 0..MaxRowLen}

\* the loop over the cells of the first row, from cell i on (indices from 0)
RECURSIVE SelectColumns(_, _, _, _)
SelectColumns(firstRowSample, i, labelColumnIndex, valueColumnIndex) ==
  IF i >= Len(firstRowSample)
    THEN [labelColumnIndex |-> labelColumnIndex, valueColumnIndex |-> valueColumnIndex]
  ELSE
    LET value == firstRowSample[i + 1] IN
    IF value.tag # "number" /\ ~isNumericString(value) /\ labelColumnIndex = 0
      THEN SelectColumns(firstRowSample, i + 1, i, valueColumnIndex)
    ELSE IF /\ value.tag = "number" \/ isNumericString(value)
            /\ valueColumnIndex = 1
            /\ i # labelColumnIndex
      THEN [labelColumnIndex |-> labelColumnIndex, valueColumnIndex |-> i]
    ELSE SelectColumns(firstRowSample, i + 1, labelColumnIndex, valueColumnIndex)

\* the column selection of prepareChartData
prepareChartData(firstRowSample) == SelectColumns(firstRowSample, 0, 0, 1)

PrepareChart ==
  /\ chart.pc = "row"
  /\ chart' = [chart EXCEPT !.pc = "selected",
                            !.first = prepareChartData(chart.input)]
  /\ SessionUnchanged /\ UNCHANGED <<call, auth>>

ChartInit ==
  /\ Session
  /\ apiKey = "token"
  /\ call = NoCall
  /\ auth = NoAuth
  /\ chart \in {[pc |-> "row", input |-> r, first |-> Undefined, second |-> Undefined] :
                  r \in FirstRows}

ChartNext == PrepareChart

ChartSpec == ChartInit /\ [][ChartNext]_vars

(* ------------------- AuthContext: the login rate limit ----------------- *)
\* milliseconds (5 * 60 * 1000); Date.now() advances by TickMs at a time,
\* MaxClockTicks times
RATE_LIMIT_WINDOW == 300000
MAX_ATTEMPTS == 5
TickMs == 60000
MaxClockTicks == 6
\* the loginWithMicrosoft calls followed
MaxLogins == 7

\* the value stored under RATE_LIMIT_KEY
RateLimitData(attempts, timestamp) ==
  [tag |-> "object", attempts |-> attempts, timestamp |-> timestamp]

\* what promptAsync settles with: a result of one of the types the effect
\* tests, or a rejection
PromptResults == {"success", "error", "cancel", "rejects"}

\* preventRepeatedAttempts throws: the stored attempts are within the window
\* and at the maximum
RateLimited(rateLimitData, t) ==
  /\ ~Falsy(rateLimitData)
  /\ t - rateLimitData.timestamp < RATE_LIMIT_WINDOW
  /\ rateLimitData.attempts >= MAX_ATTEMPTS

\* what preventRepeatedAttempts stores when it does not throw
Recorded(rateLimitData, t) ==
  IF Falsy(rateLimitData) THEN RateLimitData(1, t)
  ELSE IF t - rateLimitData.timestamp < RATE_LIMIT_WINDOW
    THEN RateLimitData(rateLimitData.attempts + 1, rateLimitData.timestamp)
  ELSE RateLimitData(1, t)

\* loginWithMicrosoft up to its prompt: lines 262-285
LoginWithMicrosoft ==
  /\ auth.pc = "idle"
  /\ auth.logins < MaxLogins
  /\ auth' =
       IF RateLimited(auth.stored, auth.now)
         THEN [auth EXCEPT !.logins = @ + 1, !.last = "rejected"]
       ELSE [auth EXCEPT !.logins = @ + 1,
                         !.pc = "prompt",
                         !.prompts = @ + 1,
                         !.stored = Recorded(auth.stored, auth.now)]
  /\ SessionUnchanged /\ UNCHANGED <<call, chart>>

\* promptAsync settles: lines 285-296
PromptReturns ==
  /\ auth.pc = "prompt"
  /\ \E result \in PromptResults :
       auth' =
         IF result = "rejects"
           THEN [auth EXCEPT !.pc = "idle", !.last = result]
         ELSE [auth EXCEPT !.pc = "idle", !.last = result, !.stored = Null]
  /\ SessionUnchanged /\ UNCHANGED <<call, chart>>

\* time passes
ClockTick ==
  /\ auth.pc # "none"
  /\ auth.now < MaxClockTicks * TickMs
  /\ auth' = [auth EXCEPT !.now = @ + TickMs]
  /\ SessionUnchanged /\ UNCHANGED <<call, chart>>

AuthInit ==
  /\ Session
  /\ apiKey = "token"
  /\ call = NoCall
  /\ chart = NoChart
  /\ auth = [pc |-> "idle", stored |-> Null, now |-> 0, logins |-> 0,
             prompts |-> 0, last |-> "none"]

AuthNext == LoginWithMicrosoft \/ PromptReturns \/ ClockTick

AuthSpec == AuthInit /\ [][AuthNext]_vars

(* ------------------------- vocabulary of the claims -------------------- *)
InFlight(o) == op[o].pc \notin {"idle", "done"}

\* invocation o takes its last step, through the try block or the catch block
SettlesOk(o) == InFlight(o) /\ op'[o].pc = "done" /\ op'[o].outcome = "success"
Fails(o) == InFlight(o) /\ op'[o].pc = "done" /\ op'[o].outcome = "error"

Positions(msgs) == 1..Len(msgs)
WithId(msgs, id) == {i \in Positions(msgs) : msgs[i].id = id}

\* a field that is present and holds neither undefined nor null
Present(m, k) == Has(m, k) /\ ~Falsy(m[k])

\* the positions whose message goes from loading=true to loading=false
Resolved == {i \in Positions(messages) :
               /\ i \in Positions(messages')
               /\ Loading(messages[i])
               /\ Has(messages'[i], "loading") /\ ~messages'[i].loading}

\* ids, senders and positions are the same before and after the step
SameShape ==
  /\ Len(messages') = Len(messages)
  /\ \A i \in Positions(messages) :
       /\ messages'[i].id = messages[i].id
       /\ messages'[i].sender = messages[i].sender
       /\ messages'[i].by = messages[i].by

(* --------------------------------- C1 ---------------------------------- *)
\* the placeholder that send o appended, where it still is in the list
OwnPlaceholder(o) ==
  {i \in Positions(messages) : messages[i].by = o /\ messages[i].sender = "bot"}

Moves(o) == op'[o] # op[o]

\* C2 as stated: no step of a regeneration changes the length of messages or
\* the greeting; a step changes no message other than the most recent bot
\* message that was not loading and not the greeting when the regeneration
\* was issued, and what it writes goes onto that message's id.
C2_RegenerationTouchesOnlyItsTarget ==
  [][\A o \in Ops :
       (Moves(o) /\ op'[o].isRegeneration) =>
         /\ Len(messages') = Len(messages)
         /\ messages'[1] = messages[1]
         /\ \A i \in Positions(messages) :
              messages'[i] # messages[i] =>
                /\ i = op'[o].botMessageToReplaceIndex
                /\ messages[i].id = op'[o].botMessageToReplace
                /\ messages'[i].id = messages[i].id
         /\ op[o].pc = "idle" =>
              op'[o].botMessageToReplaceIndex = LastBotMessageIndex(messages)]_vars

(* --------------------------------- C3 ---------------------------------- *)
AnyLoading == \E i \in Positions(messages) : Loading(messages[i])

\* C3: when every network call returns or fails, a state in which some
\* message is loading is followed by a state in which no message is loading:
\* every loading message has been settled, failed with a label, or removed by
\* clearChat.  This covers a poll that used up its attempts.
C3_LoadingIsResolved == AnyLoading ~> ~AnyLoading

\* a poll ran out of attempts and its message was settled all the same
C3_Witness ==
  \E i \in Positions(messages) :
    /\ Has(messages[i], "loading") /\ ~messages[i].loading
    /\ messages[i].rawResponse.tag = "object"
    /\ messages[i].rawResponse.apiResponse.status = "RUNNING"

(* --------------------------------- C4 ---------------------------------- *)
\* C4 as stated: once conversationId is set it keeps its value until
\* clearChat, in every interleaving of sends and regenerations.
C4_ConversationIdSetOnce ==
  [][conversationId # 0 => (conversationId' = conversationId \/ ClearChat)]_vars

(* --------------------------------- C5 ---------------------------------- *)
\* clearChat is the one handler that runs without any sendMessage invocation
\* advancing
ClearChatStep == op' = op /\ <<messages, conversationId, error, loading>>' # <<messages, conversationId, error, loading>>

\* C5: right after clearChat, from any state, messages is the greeting alone,
\* conversationId is null, error is null and loading is false.
C5_ClearChatResets ==
  [][ClearChatStep =>
       /\ messages' = <<Greeting>>
       /\ conversationId' = 0
       /\ error' = Null
       /\ loading' = FALSE]_vars

\* clearChat has run while a send was outstanding and a conversation existed
C5_Witness ==
  /\ messages = <<Greeting>> /\ conversationId = 0 /\ error = Null /\ ~loading
  /\ \E o \in Ops : InFlight(o) /\ ~op[o].isRegeneration /\ op[o].currentConversationId # 0

(* --------------------------------- C6 ---------------------------------- *)
Reasons ==
  {TokenError, ApiError(500), ApiError(409), <<"Missing conversation or message ID">>}

\* what C6 says of a failing step, for a given prefix of the error text
ErrorWrittenInPlace(o, prefix) ==
  /\ SameShape
  /\ error'.tag = "string" /\ error'.v \in Reasons
  /\ \A i \in WithId(messages, TargetMessageId(op[o])) :
       /\ Has(messages'[i], "loading") /\ ~messages'[i].loading
       /\ messages'[i].text = <<prefix>> \o error'.v

\* C6 as stated: when start, post or poll fails, the operation's placeholder
\* is replaced in place by a message with loading=false and the text
\* "Error: <reason>", and the session error is the reason.
C6_ErrorReplacesPlaceholder ==
  [][\A o \in Ops : Fails(o) => ErrorWrittenInPlace(o, "Error: ")]_vars

\* C6 amended: the same, with the text "ERROR: <reason>".
C6_ErrorReplacesPlaceholderUpperCase ==
  [][\A o \in Ops : Fails(o) => ErrorWrittenInPlace(o, "ERROR: ")]_vars

\* a failed operation, its message carrying the labelled reason
C6_Witness ==
  \E o \in Ops :
    /\ op[o].pc = "done" /\ op[o].outcome = "error"
    /\ error.tag = "string"
    /\ \E i \in WithId(messages, TargetMessageId(op[o])) :
         /\ messages[i].sender = "bot"
         /\ ~Loading(messages[i])
         /\ messages[i].text = <<"ERROR: ">> \o error.v

(* --------------------------------- C7 ---------------------------------- *)
\* C7 as stated: the message a failed send or regeneration writes its error
\* onto has no sqlChartData and no isQueryResponse.
C7_ErrorMessageHasNoSqlFields ==
  [][\A o \in Ops :
       Fails(o) =>
         \A i \in WithId(messages, TargetMessageId(op[o])) :
           /\ ~Present(messages'[i], "sqlChartData")
           /\ ~(Has(messages'[i], "isQueryResponse") /\ messages'[i].isQueryResponse)]_vars

(* --------------------------------- C8 ---------------------------------- *)
\* C8: from the await of executeSQLQuery on, the operation cannot end in the
\* catch block: the execution step touches neither messages nor error, and
\* the step after the result fetch, whether the fetch returned or threw,
\* settles the target with loading=false, the classified content and
\* isQueryResponse=true, leaves error as it was, and carries sqlError without
\* sqlChartData when the execution had failed.
C8_SqlFailuresAreContained ==
  [][\A o \in Ops :
       /\ (op[o].pc = "sql" /\ Moves(o)) =>
            /\ op'[o].pc = "fetch"
            /\ UNCHANGED <<messages, error>>
            /\ (op'[o].sqlError # Undefined) => Falsy(op'[o].sqlChartData)
       /\ (op[o].pc = "fetch" /\ Moves(o)) =>
            /\ SettlesOk(o)
            /\ SameShape
            /\ error' = error
            /\ \A i \in WithId(messages, TargetMessageId(op[o])) :
                 /\ Has(messages'[i], "loading") /\ ~messages'[i].loading
                 /\ messages'[i].extractedContent
                      = Str(extractContent(op[o].pollResult).content)
                 /\ messages'[i].isQueryResponse
                 /\ (op[o].sqlError # Undefined) =>
                      /\ messages'[i].sqlError = op[o].sqlError
                      /\ ~Present(messages'[i], "sqlChartData")]_vars

\* a send whose SQL execution and whose result fetch both failed has settled
C8_Witness ==
  /\ error = Null
  /\ \E o \in Ops :
       /\ op[o].pc = "done" /\ op[o].outcome = "success" /\ op[o].attemptedSql
       /\ \E i \in WithId(messages, TargetMessageId(op[o])) :
            /\ Has(messages[i], "loading") /\ ~messages[i].loading
            /\ Present(messages[i], "sqlError")
            /\ ~Present(messages[i], "sqlChartData")
            /\ messages[i].isQueryResponse
            /\ messages[i].extractedContent = Str("d")
            /\ Falsy(messages[i].rawResponse.sqlResult)

(* --------------------------------- C9 ---------------------------------- *)
\* C9: no message has both sqlChartData and sqlError, and a message that has
\* either has isQueryResponse=true.
C9_ChartAndErrorExclusive ==
  \A i \in Positions(messages) :
    /\ ~(Present(messages[i], "sqlChartData") /\ Present(messages[i], "sqlError"))
    /\ (Present(messages[i], "sqlChartData") \/ Present(messages[i], "sqlError"))
         => (Has(messages[i], "isQueryResponse") /\ messages[i].isQueryResponse)

\* one message shows a chart while another shows an SQL error
C9_Witness ==
  \E i, j \in Positions(messages) :
    /\ Present(messages[i], "sqlChartData")
    /\ Present(messages[j], "sqlError")

(* --------------------------------- C10 --------------------------------- *)
\* C10 as stated: the message settled by an operation that called
\* executeSQLQuery carries exactly one of sqlChartData and sqlError.
C10_ExactlyOneOfChartAndError ==
  [][\A o \in Ops :
       (SettlesOk(o) /\ op[o].attemptedSql) =>
         \A i \in WithId(messages, TargetMessageId(op[o])) :
           Present(messages'[i], "sqlChartData") # Present(messages'[i], "sqlError")]_vars

(* --------------------------------- C11 --------------------------------- *)
\* the call of fn has ended
Ended(fn) == call.pc = "done" /\ call.fn = fn

\* C11 as stated: when every response to pollForResponse is a 200 whose
\* status is neither COMPLETED nor FAILED, it makes exactly 20 fetches, never
\* more, and then returns the last payload without throwing.
C11_TwentyCallsThenLastPayload ==
  (call.pc # "none" /\ call.fn = "pollForResponse" /\ call.pending = call.calls) =>
    /\ call.calls <= PollAttempts
    /\ call.pc = "done" /\ call.calls > 0 =>
         /\ call.calls = PollAttempts
         /\ call.outcome = Returned(call.body)

(* --------------------------------- C12 --------------------------------- *)
\* C12 as stated: a send whose poll returned a payload that is neither
\* COMPLETED nor FAILED does not end through the success path: no message is
\* settled by the try block with such a payload.
C12_ExhaustedPollIsNotSuccess ==
  [][\A o \in Ops :
       SettlesOk(o) =>
         \A i \in WithId(messages, TargetMessageId(op[o])) :
           Terminal(messages'[i].rawResponse.apiResponse)]_vars

(* --------------------------------- C13 --------------------------------- *)
\* C13: while every response to pollForResponse is a 409 it makes at most 16
\* fetches and returns no payload; it ends after exactly 16 fetches (15
\* retries) by throwing "API error 409".
C13_FifteenConflictRetries ==
  (call.pc # "none" /\ call.fn = "pollForResponse"
     /\ call.calls > 0 /\ call.conflicts = call.calls) =>
    /\ call.calls <= ConflictRetries + 1
    /\ call.attempts = call.calls - (IF call.pc = "done" THEN 1 ELSE 0)
    /\ call.pc = "done" =>
         /\ call.calls = ConflictRetries + 1
         /\ call.outcome = Threw(ApiError(409))

\* sixteen 409 answers in a row have ended the call
C13_Witness ==
  /\ Ended("pollForResponse")
  /\ call.conflicts = ConflictRetries + 1 /\ call.calls = call.conflicts
  /\ call.outcome.threw

(* --------------------------------- C14 --------------------------------- *)
\* the delay the schedule asks for before the k-th retry:
\* min(1000 * 1.5^(k-1), 10000) ms
ScheduledDelay(k) == Delay(k - 1)

\* a fetch of the followed call takes place in this step
Fetches == call'.calls = call.calls + 1

\* C14: pollForResponse fetches again only after a 409 or after a 200 that is
\* neither COMPLETED nor FAILED, and not before the scheduled delay has
\* elapsed since the previous fetch; a COMPLETED or FAILED payload is returned
\* by the fetch that received it; any other non-2xx answer ends the call at
\* once with "API error <status>".  After the answers 409, 409, RUNNING,
\* COMPLETED the call has made 4 fetches and has returned the fourth payload.
C14_PollCallsAndReturns ==
  [][(call.pc # "none" /\ call.fn = "pollForResponse" /\ Fetches) =>
       /\ call.calls > 0 =>
            /\ call.last \in {"409", "RUNNING"}
            /\ RatLe(ScheduledDelay(call.calls), call.waited)
       /\ call'.last \in {"COMPLETED", "FAILED"} =>
            call'.pc = "done" /\ call'.outcome = Returned(call'.body)
       /\ call'.last = "500" =>
            call'.pc = "done" /\ call'.outcome = Threw(ApiError(500))
       /\ (call'.last = "COMPLETED" /\ call'.ordered
             /\ call'.conflicts = 2 /\ call'.pending = 1) =>
            call'.calls = 4 /\ call'.outcome = Returned(CompletedText)]_vars

\* the answers were 409, 409, RUNNING, COMPLETED and the call has returned
C14_Witness ==
  /\ Ended("pollForResponse")
  /\ call.last = "COMPLETED" /\ call.ordered
  /\ call.conflicts = 2 /\ call.pending = 1 /\ call.calls = 4
  /\ ~call.outcome.threw

(* --------------------------------- C15 --------------------------------- *)
\* C15 as stated: the delay that pollForResponse, getSQLQueryResult and
\* getAttachmentQueryResult wait before their k-th retry is
\* min(1000 * 1.5^(k-1), 10000) ms.
C15_DelayStartsAtBase ==
  [][(call.pc = "delay" /\ call'.pc = "fetch") =>
       RatEq(call'.waited, ScheduledDelay(call.attempts))]_vars

C17_ExecuteSqlOnce ==
  (call.pc # "none" /\ call.fn = "executeSQLQuery" /\ call.token # "") =>
    /\ call.calls <= 1
    /\ call.pc = "done" =>
         /\ call.calls = 1
         /\ call.last \in {"500", "409"} =>
              /\ call.outcome.threw
              /\ call.outcome.message = <<"Databricks SQL API error ", call.last>>
         /\ call.last = "FAILED" =>
              /\ call.outcome.threw
              /\ call.body.message # "" => call.outcome.message[2] = call.body.message
         /\ call.last \notin {"500", "409", "FAILED"} =>
              call.outcome = Returned(call.body)

\* the statement failed with "syntax error" and the call threw that message
C17_Witness ==
  /\ Ended("executeSQLQuery") /\ call.calls = 1
  /\ call.outcome.threw
  /\ call.outcome.message = <<"SQL execution failed: ", "syntax error">>

(* --------------------------------- C18 --------------------------------- *)
\* C18 as stated: getSQLQueryResult and getAttachmentQueryResult make at most
\* 15 fetches, fetch again after an answer whose state is RUNNING or PENDING
\* until then, and throw at once on a non-2xx answer.
C18_FifteenAttemptsOnBothEndpoints ==
  (call.pc # "none"
     /\ call.fn \in {"getSQLQueryResult", "getAttachmentQueryResult"}) =>
    /\ call.calls <= SqlResultAttempts
    /\ (call.pc = "done" /\ call.last \in {"RUNNING", "PENDING"}) =>
         call.calls = SqlResultAttempts
    /\ (call.pc = "done" /\ call.last = "500") => call.outcome.threw

(* --------------------------------- C19 --------------------------------- *)
\* the input has a result section and a manifest whose schema lists columns
WellFormed(r) ==
  /\ ~Falsy(r) /\ ~Falsy(r.result) /\ ~Falsy(r.manifest)
  /\ ~Falsy(r.manifest.schema) /\ ~Falsy(r.manifest.schema.columns)
  /\ \A i \in 1..Len(r.manifest.schema.columns.v) :
       ~Falsy(r.manifest.schema.columns.v[i])

\* C19 as stated: for an input with a result section and a manifest with
\* schema columns the table has the manifest's column names in schema order,
\* the rows of data_array, rowCount equal to the number of rows, and
\* totalRowCount equal to total_row_count when the input has that field and
\* to rowCount otherwise.
C19_TableFromManifestAndRows ==
  (chart.pc \in {"once", "twice"} /\ WellFormed(chart.input)) =>
    LET r == chart.input
        columns == r.manifest.schema.columns.v
        rows == IF Falsy(r.result.data_array) THEN <<>> ELSE r.result.data_array.v
    IN
    /\ ~Falsy(chart.first)
    /\ chart.first.columnNames = [i \in 1..Len(columns) |-> columns[i].name]
    /\ chart.first.rows = rows
    /\ chart.first.rowCount = Len(rows)
    /\ chart.first.totalRowCount =
         IF Falsy(r.result.total_row_count) THEN Len(rows)
         ELSE r.result.total_row_count.v

(* --------------------------------- C20 --------------------------------- *)
\* C20: the transformer raises for no input; for an input that is null, that
\* lacks the result section or the manifest section, or whose manifest has no
\* schema, no columns or a null column, it returns null; applied again to the
\* same input it returns the same value.
C20_NullForMalformedInput ==
  /\ chart.pc \in {"once", "twice"} =>
       /\ chart.first # Raised
       /\ ~WellFormed(chart.input) => chart.first = Null
  /\ chart.pc = "twice" => chart.second = chart.first

\* a manifest without schema columns was transformed twice, to null
C20_Witness ==
  /\ chart.pc = "twice"
  /\ ~Falsy(chart.input) /\ ~Falsy(chart.input.result) /\ ~Falsy(chart.input.manifest)
  /\ ~Falsy(chart.input.manifest.schema)
  /\ Falsy(chart.input.manifest.schema.columns)
  /\ chart.first = Null /\ chart.second = Null

(* --------------------------------- C21 --------------------------------- *)
\* C21 as stated: every table the transformer returns has totalRowCount no
\* smaller than rowCount, whatever total_row_count the server reported.
C21_TotalAtLeastRowCount ==
  (chart.pc \in {"once", "twice"} /\ ~Falsy(chart.first)) =>
    chart.first.totalRowCount >= chart.first.rowCount

(* --------------------------------- C22 --------------------------------- *)
Fallback == "Could not extract content from response"

\* the classified message has a first attachment
Classified ==
  /\ chart.pc = "classified"
  /\ ~Falsy(chart.input)
  /\ Len(chart.input.attachments) > 0

\* C22 as stated: a first attachment with a query yields its description and
\* isQueryResponse = true (also when a text shape is present); otherwise one
\* with a text yields its content and false; otherwise the fallback and false.
C22_ClassifiedByFirstAttachment ==
  /\ Classified =>
       LET a == chart.input.attachments[1] IN
       chart.first =
         IF a.hasQuery THEN [content |-> a.description, isQueryResponse |-> TRUE]
         ELSE IF a.hasText THEN [content |-> a.content, isQueryResponse |-> FALSE]
         ELSE [content |-> Fallback, isQueryResponse |-> FALSE]
  /\ (chart.pc = "classified" /\ ~Classified) =>
       chart.first = [content |-> Fallback, isQueryResponse |-> FALSE]

\* C22: the classification is a function of the first attachment alone. A
\* query shape yields isQueryResponse = true and its description, or "No
\* query description available" when the description is empty, whether or not
\* a text shape is present; otherwise a text shape with non-empty content
\* yields that content and false; otherwise the fallback string and false.
C22_ClassifiedByFirstAttachmentWithDefaults ==
  /\ Classified =>
       LET a == chart.input.attachments[1] IN
       chart.first =
         IF a.hasQuery
           THEN [content |-> IF a.description = ""
                               THEN "No query description available"
                             ELSE a.description,
                 isQueryResponse |-> TRUE]
         ELSE IF a.hasText /\ a.content # ""
           THEN [content |-> a.content, isQueryResponse |-> FALSE]
         ELSE [content |-> Fallback, isQueryResponse |-> FALSE]
  /\ (chart.pc = "classified" /\ ~Classified) =>
       chart.first = [content |-> Fallback, isQueryResponse |-> FALSE]

\* a first attachment with both shapes was classified as a query, in front of
\* a second attachment that has a text only
C22_Witness ==
  /\ Classified
  /\ Len(chart.input.attachments) = 2
  /\ chart.input.attachments[1].hasQuery /\ chart.input.attachments[1].hasText
  /\ chart.input.attachments[1].content = "hi"
  /\ ~chart.input.attachments[2].hasQuery /\ chart.input.attachments[2].hasText
  /\ chart.first = [content |-> "d", isQueryResponse |-> TRUE]

(* --------------------------------- C23 --------------------------------- *)
\* C23 as stated: while some send or regeneration has started and has not
\* settled, the loading flag of the session is true.
C23_LoadingWhileOutstanding ==
  (\E o \in Ops : InFlight(o)) => loading

(* --------------------------------- C24 --------------------------------- *)
\* C24 as stated: the messages of the session have pairwise distinct ids.
C24_IdsAreDistinct ==
  \A i \in Positions(messages), j \in Positions(messages) :
    i # j => messages[i].id # messages[j].id

(* --------------------------------- C26 --------------------------------- *)
\* C26 as stated: when a non-regeneration send settles, through the try block
\* or the catch block, while another non-regeneration send is outstanding, the
\* only message it changes is the placeholder it appended itself.
C26_SettlesOwnPlaceholderOnly ==
  [][\A o \in Ops :
       (/\ SettlesOk(o) \/ Fails(o)
        /\ ~op[o].isRegeneration
        /\ \E p \in Ops \ {o} : InFlight(p) /\ ~op[p].isRegeneration) =>
         /\ Len(messages') = Len(messages)
         /\ \A i \in Positions(messages) :
              messages'[i] # messages[i] => i \in OwnPlaceholder(o)]_vars

(* --------------------------------- C28 --------------------------------- *)
\* clearChat ran after invocation o began: o appended a placeholder or marked
\* an existing target, and only clearChat makes the list the greeting again
ClearedUnder(o) ==
  /\ InFlight(o)
  /\ ~op[o].isRegeneration \/ op[o].botMessageToReplace # 0
  /\ messages = <<Greeting>>
  /\ conversationId = 0

\* C28 as stated: after clearChat ran while an operation was outstanding, and
\* before another send is issued, no step of that operation changes messages
\* or conversationId.
C28_CompletionAfterClearChangesNothing ==
  [][\A o \in Ops :
       (ClearedUnder(o) /\ Moves(o)) =>
         messages' = <<Greeting>> /\ conversationId' = 0]_vars

(* --------------------------------- C29 --------------------------------- *)
\* invocation o is issued as a regeneration and finds no eligible bot message
RegenerationWithoutTarget(o) ==
  /\ op[o].pc = "idle" /\ op'[o].pc # "idle"
  /\ op'[o].isRegeneration
  /\ op'[o].botMessageToReplace = 0

\* C29 as stated: a regeneration issued when no bot message is eligible
\* awaits no remote call and leaves messages, conversationId and error as
\* they were.
C29_RegenerationWithoutTargetIsNoOp ==
  [][\A o \in Ops :
       RegenerationWithoutTarget(o) =>
         /\ ~InFlight(o)'
         /\ messages' = messages
         /\ conversationId' = conversationId
         /\ error' = error]_vars

(* --------------------------------- C25 --------------------------------- *)
\* the least index of a set of indices
Least(S) == CHOOSE i \in S : \A j \in S : i <= j

\* the indices (from 0) of the cells that are numbers or numeric-looking
\* strings, and of the others
NumericAt(row) ==
  {i \in 0..(Len(row) - 1) : row[i + 1].tag = "number" \/ isNumericString(row[i + 1])}
OtherAt(row) == (0..(Len(row) - 1)) \ NumericAt(row)

\* C25 as stated: the label column is the index of the first cell of the
\* first row that is neither a number nor a numeric-looking string, 0 if
\* there is none; the value column is the index of the first numeric or
\* numeric-looking cell at another index than the label column, 1 if there
\* is none.
C25_LabelAndValueColumns ==
  chart.pc = "selected" =>
    LET row == chart.input
        label == IF OtherAt(row) = {} THEN 0 ELSE Least(OtherAt(row))
        values == NumericAt(row) \ {label}
    IN
    /\ chart.first.labelColumnIndex = label
    /\ chart.first.valueColumnIndex = IF values = {} THEN 1 ELSE Least(values)

(* --------------------------------- C27 --------------------------------- *)
\* C27: every fetch of pollForResponse is preceded by as many retries, of
\* either kind, as fetches were made before it; no call makes more than 21
\* fetches; a 409 that answers a fetch made after 15 or more retries ends the
\* call with "API error 409".
C27_OneCounterForBothRetries ==
  [][(call.pc # "none" /\ call.fn = "pollForResponse" /\ Fetches) =>
       /\ call.attempts = call.calls
       /\ call.calls = call.conflicts + call.pending
       /\ call'.calls <= PollAttempts + 1
       /\ (call.calls >= ConflictRetries /\ call'.last = "409") =>
            /\ call'.pc = "done"
            /\ call'.outcome = Threw(ApiError(409))]_vars

\* fifteen non-terminal answers were retried and the 409 that followed them
\* ended the call
C27_Witness ==
  /\ Ended("pollForResponse")
  /\ call.pending = ConflictRetries /\ call.conflicts = 1
  /\ call.last = "409"
  /\ call.outcome = Threw(ApiError(409))

(* --------------------------------- C30 --------------------------------- *)
\* a loginWithMicrosoft call is made in this step
LoginCalled == auth.pc = "idle" /\ auth'.logins = auth.logins + 1

\* the stored record holds the maximum of attempts and its window is open
WindowFull ==
  /\ ~Falsy(auth.stored)
  /\ auth.stored.attempts >= MAX_ATTEMPTS
  /\ auth.now - auth.stored.timestamp < RATE_LIMIT_WINDOW

\* C30, first part: a loginWithMicrosoft call made while 5 attempts are
\* recorded within the 5-minute window is rejected and shows no prompt.
RejectedBeforePrompt ==
  (LoginCalled /\ WindowFull) =>
    /\ auth'.last = "rejected"
    /\ auth'.pc = "idle"
    /\ auth'.prompts = auth.prompts

\* C30, second part: the stored record is removed only when a prompt has
\* ended in a successful authentication.
ClearedOnlyOnSuccess ==
  (~Falsy(auth.stored) /\ Falsy(auth'.stored)) => auth'.last = "success"

\* C30 as stated: both parts, in every step.
C30_LoginRateLimit ==
  [][auth.pc # "none" => (RejectedBeforePrompt /\ ClearedOnlyOnSuccess)]_vars

====
